---- MODULE Spec2Model ----
(***************************************************************************)
(* Model of the "On Their Footsteps" backend: the content-production       *)
(* pipeline handlers (backend/app/api/content_pipeline.py), the lesson     *)
(* progress and skip-quiz handlers (backend/app/api/learning_paths.py),    *)
(* User.add_xp (backend/app/models.py), the in-memory cache                *)
(* (backend/app/cache.py), the admin endpoints                             *)
(* (backend/app/api/admin.py) and the health-check script                  *)
(* (admin/scripts/health_check.py).                                        *)
(*                                                                         *)
(* Rows are kept in sequences; a row's id is its index (autoincrement      *)
(* primary keys, no handler deletes a row).  Record fields carry the names *)
(* the handlers use.  Every handler is one action and leaves its HTTP       *)
(* answer in resp.                                                         *)
(***************************************************************************)
EXTENDS Integers, Sequences, FiniteSets, TLC

(* ------------------------------ bounds -------------------------------- *)
\* Rows the production, script and publication tables may hold together.
MaxRows == 3
\* Rows all pipeline tables may hold together.
MaxContentRows == 2
\* UserLessonProgress rows.
MaxProgressRows == 3
\* current_xp.
MaxXp == 60

(* ----------------------------- universe ------------------------------- *)
None == 0
Users == {1, 2, 3}
Characters == {1}
PlatformIds == {1, 2}
Permissions == {"CREATE_CHARACTER", "CREATE_SCRIPT", "APPROVE_SCRIPT",
                "UPLOAD_ANIMATION", "UPLOAD_VOICE", "APPROVE_ANIMATION"}
\* The stages the data model names (models.py:500).
Stages == {"idea", "scripting", "illustration", "voice_recording",
           "animation", "review", "published"}
IllustrationFileTypes == {"sketch", "final", "thumbnail", "other"}
AnimationFileTypes == {"storyboard", "preview", "final", "other"}

VARIABLES
    productions,      \* ContentProduction rows
    scripts,          \* Script rows
    illustrations,    \* Illustration rows
    voice_recordings, \* VoiceRecording rows
    animations,       \* Animation rows
    files,            \* files written under backend/static
    publications,     \* Publication rows
    tasks,            \* number of Task rows
    resp,             \* the last content-pipeline handler's answer
    levels,           \* Level rows: [id, xp_required]
    unique_constraint,\* whether the schema has _user_lesson_uc
    progress,         \* committed UserLessonProgress rows
    current_xp,       \* User.current_xp, per user
    level_id,         \* User.level_id, per user
    req,              \* lesson-progress requests in flight, and their answers
    cache,            \* the TTLCache's items, oldest write first
    lru,              \* the TTLCache's keys, least recently used first
    now,              \* the clock, in seconds
    ret,              \* the cache call just made: its key and its value
    lessons,          \* Lesson rows, in the order they were inserted
    skip,             \* the last skip_quiz answer
    users,            \* User rows as the admin endpoints see them
    characters,       \* IslamicCharacter rows as the admin endpoints see them
    admin_resp,       \* the last admin endpoint's answer
    calls,            \* the decorated function: its expire, its last run
    health            \* the last run of health_check.py

pipeVars == <<productions, scripts, illustrations, voice_recordings,
              animations, files, publications, tasks>>
learnVars == <<levels, unique_constraint, progress, current_xp, level_id, req>>
cacheVars == <<cache, lru, now, ret>>
skipVars == <<lessons, skip>>
adminVars == <<users, characters, admin_resp>>
auxVars == <<calls, health>>
otherVars == <<cacheVars, skipVars, adminVars, auxVars>>
vars == <<pipeVars, resp, learnVars, otherVars>>

\* Everything the pipeline stores: rows and files.
pipeStore == <<productions, scripts, illustrations, voice_recordings,
               animations, files, publications, tasks>>

(* ----------------------------- helpers -------------------------------- *)
\* db.query(TeamMember).filter(TeamMember.user_id == current_user.id).first():
\* users 1 and 2 have a TeamMember row (ids 1 and 2), user 3 has none.
TeamMemberOf(u) == IF u \in {1, 2} THEN u ELSE None

\* Role.permissions of each member's role: member 1 manages the pipeline,
\* member 2 writes scripts.
RolePermissions(member) ==
    IF member = 1 THEN Permissions ELSE {"CREATE_SCRIPT"}

\* has_permission(team_member.role, perm): the role's permission list
\* (Role.permissions) contains the named capability.
has_permission(member, perm) == perm \in RolePermissions(member)

\* "not team_member or not has_permission(team_member.role, perm)"
Forbidden(u, perm) ==
    TeamMemberOf(u) = None \/ ~has_permission(TeamMemberOf(u), perm)

Answer(code) == [code |-> code, count |-> 0]

\* A production's overall_status column default is not declared under
\* backend/app; every production starts either in production or not yet.
InitialStatuses == {"planning", "in_production"}

(* ------------------------ content_pipeline.py ------------------------- *)
\* POST /productions
create_content_production(u, character_id, complete, status0) ==
    IF Forbidden(u, "CREATE_CHARACTER")
    THEN /\ resp' = Answer(403)
         /\ UNCHANGED pipeVars
    ELSE IF ~complete   \* production_data["title"] raises KeyError
    THEN /\ resp' = Answer(500)
         /\ UNCHANGED pipeVars
    ELSE    /\ productions' = Append(productions,
                  [character_id |-> character_id,
                   current_stage |-> "idea",
                   overall_status |-> status0,
                   completion_percentage |-> 0,
                   script_id |-> None])
            /\ tasks' = tasks + 1
            /\ resp' = Answer(200)
            /\ UNCHANGED <<scripts, illustrations, voice_recordings,
                           animations, files, publications>>

\* The productions create_script's query (lines 162-165) can return.
LinkCandidates(character_id) ==
    { p \in 1..Len(productions) :
        /\ productions[p].character_id = character_id
        /\ productions[p].overall_status = "in_production" }

\* POST /scripts
create_script(u, character_id, complete) ==
    IF Forbidden(u, "CREATE_SCRIPT")
    THEN /\ resp' = Answer(403)
         /\ UNCHANGED pipeVars
    ELSE IF ~complete   \* script_data["title"] / ["content"] raise KeyError
    THEN /\ resp' = Answer(500)
         /\ UNCHANGED pipeVars
    ELSE    LET sid == Len(scripts) + 1
                row == [character_id |-> character_id,
                        written_by_id |-> TeamMemberOf(u),
                        status |-> "draft"]
            IN /\ scripts' = Append(scripts, row)
               /\ IF character_id # None /\ LinkCandidates(character_id) # {}
                  THEN \E p \in LinkCandidates(character_id) :
                         productions' = [productions EXCEPT
                             ![p].current_stage = "scripting",
                             ![p].script_id = sid]
                  ELSE UNCHANGED productions
               /\ resp' = Answer(200)
               /\ UNCHANGED <<illustrations, voice_recordings,
                              animations, files, publications, tasks>>

\* PUT /scripts/{script_id}/submit-review
submit_script_for_review(u, script_id) ==
    IF script_id \notin 1..Len(scripts)
    THEN /\ resp' = Answer(404)
         /\ UNCHANGED pipeVars
    ELSE IF TeamMemberOf(u) = None   \* team_member.id on None: AttributeError
    THEN /\ resp' = Answer(500)
         /\ UNCHANGED pipeVars
    ELSE IF scripts[script_id].written_by_id # TeamMemberOf(u)
    THEN /\ resp' = Answer(403)
         /\ UNCHANGED pipeVars
    ELSE /\ scripts' = [scripts EXCEPT ![script_id].status = "pending_review"]
         /\ resp' = Answer(200)
         /\ UNCHANGED <<productions, illustrations, voice_recordings,
                        animations, files, publications, tasks>>

\* The productions approve_script's query (lines 233-235) can return.
ApproveCandidates(character_id) ==
    { p \in 1..Len(productions) : productions[p].character_id = character_id }

\* approve_script adding its 20 points to what the production already has.
approve_script_adding_bump(u, script_id) ==
    IF Forbidden(u, "APPROVE_SCRIPT")
    THEN /\ resp' = Answer(403)
         /\ UNCHANGED pipeVars
    ELSE IF script_id \notin 1..Len(scripts)
    THEN /\ resp' = Answer(404)
         /\ UNCHANGED pipeVars
    ELSE LET c == scripts[script_id].character_id
         IN /\ scripts' = [scripts EXCEPT ![script_id].status = "approved"]
            /\ IF c # None /\ ApproveCandidates(c) # {}
               THEN \E p \in ApproveCandidates(c) :
                      productions' = [productions EXCEPT
                          ![p].current_stage = "drawing",
                          ![p].completion_percentage =
                              IF @ + 20 > 100 THEN 100 ELSE @ + 20]
               ELSE UNCHANGED productions
            /\ resp' = Answer(200)
            /\ UNCHANGED <<illustrations, voice_recordings,
                           animations, files, publications, tasks>>

\* POST /scripts/{script_id}/approve
approve_script(u, script_id) ==
    IF Forbidden(u, "APPROVE_SCRIPT")
    THEN /\ resp' = Answer(403)
         /\ UNCHANGED pipeVars
    ELSE IF script_id \notin 1..Len(scripts)
    THEN /\ resp' = Answer(404)
         /\ UNCHANGED pipeVars
    ELSE LET c == scripts[script_id].character_id
         IN /\ scripts' = [scripts EXCEPT ![script_id].status = "approved"]
            /\ IF c # None /\ ApproveCandidates(c) # {}
               THEN \E p \in ApproveCandidates(c) :
                      productions' = [productions EXCEPT
                          ![p].current_stage = "drawing",
                          ![p].completion_percentage = 20]
               ELSE UNCHANGED productions
            /\ resp' = Answer(200)
            /\ UNCHANGED <<illustrations, voice_recordings,
                           animations, files, publications, tasks>>

\* The Publication rows publish_content adds, one per entry of the list.
RECURSIVE NewPublications(_, _)
NewPublications(production_id, platforms) ==
    IF platforms = <<>> THEN <<>>
    ELSE <<[content_production_id |-> production_id,
            platform_id |-> Head(platforms)]>>
         \o NewPublications(production_id, Tail(platforms))

\* publish_content recording the publish with a single Publication row,
\* whatever the number of platforms requested.
publish_content_single_row(u, production_id, platforms) ==
    IF Forbidden(u, "APPROVE_ANIMATION")
    THEN /\ resp' = Answer(403)
         /\ UNCHANGED pipeVars
    ELSE IF production_id \notin 1..Len(productions)
    THEN /\ resp' = Answer(404)
         /\ UNCHANGED pipeVars
    ELSE    /\ productions' = [productions EXCEPT
                  ![production_id].overall_status = "published",
                  ![production_id].completion_percentage = 100]
            /\ publications' = publications \o
                  (IF platforms = <<>> THEN <<>>
                   ELSE <<[content_production_id |-> production_id,
                           platform_id |-> Head(platforms)]>>)
            /\ resp' = [code |-> 200, count |-> Len(platforms)]
            /\ UNCHANGED <<scripts, illustrations, voice_recordings,
                           animations, files, tasks>>

\* publish_content replacing the production's earlier Publication rows by the
\* rows of the new publish.
publish_content_replacing_rows(u, production_id, platforms) ==
    IF Forbidden(u, "APPROVE_ANIMATION")
    THEN /\ resp' = Answer(403)
         /\ UNCHANGED pipeVars
    ELSE IF production_id \notin 1..Len(productions)
    THEN /\ resp' = Answer(404)
         /\ UNCHANGED pipeVars
    ELSE    /\ productions' = [productions EXCEPT
                  ![production_id].overall_status = "published",
                  ![production_id].completion_percentage = 100]
            /\ publications' =
                  SelectSeq(publications,
                      LAMBDA row : row.content_production_id # production_id)
                  \o NewPublications(production_id, platforms)
            /\ resp' = [code |-> 200,
                        count |-> Len(NewPublications(production_id, platforms))]
            /\ UNCHANGED <<scripts, illustrations, voice_recordings,
                           animations, files, tasks>>

\* POST /productions/{production_id}/publish
publish_content(u, production_id, platforms) ==
    IF Forbidden(u, "APPROVE_ANIMATION")
    THEN /\ resp' = Answer(403)
         /\ UNCHANGED pipeVars
    ELSE IF production_id \notin 1..Len(productions)
    THEN /\ resp' = Answer(404)
         /\ UNCHANGED pipeVars
    ELSE    /\ productions' = [productions EXCEPT
                  ![production_id].overall_status = "published",
                  ![production_id].completion_percentage = 100]
            /\ publications' =
                  publications \o NewPublications(production_id, platforms)
            /\ resp' = [code |-> 200,
                        count |-> Len(NewPublications(production_id, platforms))]
            /\ UNCHANGED <<scripts, illustrations, voice_recordings,
                           animations, files, tasks>>

(* ----------------- illustrations, voice, animations ------------------- *)
\* POST /illustrations
create_illustration(u, complete) ==
    IF Forbidden(u, "UPLOAD_ANIMATION")
    THEN /\ resp' = Answer(403)
         /\ UNCHANGED pipeVars
    ELSE IF ~complete   \* illustration_data["title"] / ["script_id"]: KeyError
    THEN /\ resp' = Answer(500)
         /\ UNCHANGED pipeVars
    ELSE /\ illustrations' = Append(illustrations,
               [illustrated_by_id |-> TeamMemberOf(u), status |-> "draft"])
         /\ resp' = Answer(200)
         /\ UNCHANGED <<productions, scripts, voice_recordings,
                        animations, files, publications, tasks>>

\* The status an uploaded illustration file leaves (lines 317-325).
IllustrationStatus(old, file_type) ==
    CASE file_type = "sketch" -> "sketch_uploaded"
      [] file_type = "final" -> "completed"
      [] OTHER -> old

\* upload_illustration_file saving the file before it checks the owner.
upload_illustration_file_unchecked_write(u, illustration_id, file_type) ==
    IF illustration_id \notin 1..Len(illustrations)
    THEN /\ resp' = Answer(404)
         /\ UNCHANGED pipeVars
    ELSE IF TeamMemberOf(u) = None
    THEN /\ resp' = Answer(500)
         /\ UNCHANGED pipeVars
    ELSE IF illustrations[illustration_id].illustrated_by_id # TeamMemberOf(u)
    THEN /\ files' = files \cup {<<"illustration", illustration_id, file_type>>}
         /\ resp' = Answer(403)
         /\ UNCHANGED <<productions, scripts, illustrations, voice_recordings,
                        animations, publications, tasks>>
    ELSE /\ files' = files \cup {<<"illustration", illustration_id, file_type>>}
         /\ illustrations' = [illustrations EXCEPT ![illustration_id].status =
               IllustrationStatus(@, file_type)]
         /\ resp' = Answer(200)
         /\ UNCHANGED <<productions, scripts, voice_recordings,
                        animations, publications, tasks>>

\* POST /illustrations/{illustration_id}/upload
upload_illustration_file(u, illustration_id, file_type) ==
    IF illustration_id \notin 1..Len(illustrations)
    THEN /\ resp' = Answer(404)
         /\ UNCHANGED pipeVars
    ELSE IF TeamMemberOf(u) = None   \* team_member.id on None: AttributeError
    THEN /\ resp' = Answer(500)
         /\ UNCHANGED pipeVars
    ELSE IF illustrations[illustration_id].illustrated_by_id # TeamMemberOf(u)
    THEN /\ resp' = Answer(403)
         /\ UNCHANGED pipeVars
    ELSE /\ files' = files \cup {<<"illustration", illustration_id, file_type>>}
         /\ illustrations' = [illustrations EXCEPT ![illustration_id].status =
               IllustrationStatus(@, file_type)]
         /\ resp' = Answer(200)
         /\ UNCHANGED <<productions, scripts, voice_recordings,
                        animations, publications, tasks>>

\* POST /voice-recordings
create_voice_recording(u, complete) ==
    IF Forbidden(u, "UPLOAD_VOICE")
    THEN /\ resp' = Answer(403)
         /\ UNCHANGED pipeVars
    ELSE IF ~complete   \* recording_data["title"] / ["script_text"]: KeyError
    THEN /\ resp' = Answer(500)
         /\ UNCHANGED pipeVars
    ELSE /\ voice_recordings' = Append(voice_recordings,
               [voice_artist_id |-> TeamMemberOf(u), status |-> "draft"])
         /\ resp' = Answer(200)
         /\ UNCHANGED <<productions, scripts, illustrations,
                        animations, files, publications, tasks>>

\* POST /voice-recordings/{recording_id}/upload
upload_voice_file(u, recording_id) ==
    IF recording_id \notin 1..Len(voice_recordings)
    THEN /\ resp' = Answer(404)
         /\ UNCHANGED pipeVars
    ELSE IF TeamMemberOf(u) = None   \* team_member.id on None: AttributeError
    THEN /\ resp' = Answer(500)
         /\ UNCHANGED pipeVars
    ELSE IF voice_recordings[recording_id].voice_artist_id # TeamMemberOf(u)
    THEN /\ resp' = Answer(403)
         /\ UNCHANGED pipeVars
    ELSE /\ files' = files \cup {<<"voice", recording_id, "audio">>}
         /\ voice_recordings' =
               [voice_recordings EXCEPT ![recording_id].status = "recorded"]
         /\ resp' = Answer(200)
         /\ UNCHANGED <<productions, scripts, illustrations,
                        animations, publications, tasks>>

\* POST /animations
create_animation(u, complete) ==
    IF Forbidden(u, "UPLOAD_ANIMATION")
    THEN /\ resp' = Answer(403)
         /\ UNCHANGED pipeVars
    ELSE IF ~complete   \* animation_data["title"] / ["script_id"]: KeyError
    THEN /\ resp' = Answer(500)
         /\ UNCHANGED pipeVars
    ELSE /\ animations' = Append(animations,
               [animator_id |-> TeamMemberOf(u), status |-> "draft"])
         /\ resp' = Answer(200)
         /\ UNCHANGED <<productions, scripts, illustrations,
                        voice_recordings, files, publications, tasks>>

\* The status an uploaded animation file leaves (lines 478-487).
AnimationStatus(old, file_type) ==
    CASE file_type = "storyboard" -> "storyboard_uploaded"
      [] file_type = "preview" -> "in_progress"
      [] file_type = "final" -> "completed"
      [] OTHER -> old

\* POST /animations/{animation_id}/upload
upload_animation_file(u, animation_id, file_type) ==
    IF animation_id \notin 1..Len(animations)
    THEN /\ resp' = Answer(404)
         /\ UNCHANGED pipeVars
    ELSE IF TeamMemberOf(u) = None   \* team_member.id on None: AttributeError
    THEN /\ resp' = Answer(500)
         /\ UNCHANGED pipeVars
    ELSE IF animations[animation_id].animator_id # TeamMemberOf(u)
    THEN /\ resp' = Answer(403)
         /\ UNCHANGED pipeVars
    ELSE /\ files' = files \cup {<<"animation", animation_id, file_type>>}
         /\ animations' = [animations EXCEPT ![animation_id].status =
               AnimationStatus(@, file_type)]
         /\ resp' = Answer(200)
         /\ UNCHANGED <<productions, scripts, illustrations,
                        voice_recordings, publications, tasks>>

(* ------------------- learning_paths.py and User.add_xp ---------------- *)
LearnUsers == {1, 2}
\* The user whose lesson requests are followed.
RequestUsers == {1}
\* xp_amount: the two awards update_lesson_progress makes (lines 153-155).
XpAmounts == {10, 15}
Slots == {1, 2}
NoScore == -1
\* progress_data.score: absent, or a score around the two thresholds.
Scores == {NoScore, 69, 70, 89, 90}
\* Lessons 1 and 2 are active, lesson 3 is inactive, lesson 4 does not exist.
LessonIds == {1, 2, 3, 4}
ActiveLesson(l) == l \in {1, 2}

\* The Level tables the system may be seeded with.
LevelTables ==
    { { [id |-> 1, xp_required |-> 0], [id |-> 2, xp_required |-> 10],
        [id |-> 3, xp_required |-> 25] },
      { [id |-> 1, xp_required |-> 0], [id |-> 2, xp_required |-> 5],
        [id |-> 3, xp_required |-> 10] },
      { [id |-> 1, xp_required |-> 0], [id |-> 3, xp_required |-> 20],
        [id |-> 2, xp_required |-> 40] } }

Idle(code) == [pc |-> "idle", code |-> code]

\* No request in flight, no XP: the state before any lesson request.
LearnIdle ==
    /\ levels = CHOOSE t \in LevelTables : TRUE
    /\ unique_constraint = TRUE
    /\ progress = <<>>
    /\ current_xp = [u \in LearnUsers |-> 0]
    /\ level_id = [u \in LearnUsers |-> 1]
    /\ req = [r \in Slots |-> Idle(0)]

\* The committed rows of (user, lesson), by position.
RowsOf(u, l) ==
    { i \in 1..Len(progress) :
        progress[i].user_id = u /\ progress[i].lesson_id = l }

\* update_lesson_progress, lines 121-133: the lesson and the progress row are
\* read in the request's own session.
BeginProgress(r, u, l, score) ==
    /\ req[r].pc = "idle"
    /\ IF ~ActiveLesson(l)
       THEN req' = [req EXCEPT ![r] = Idle(404)]
       ELSE \E found \in (IF RowsOf(u, l) = {} THEN {None} ELSE RowsOf(u, l)) :
              req' = [req EXCEPT ![r] =
                  [pc |-> "loaded", code |-> 0, user |-> u, lesson |-> l,
                   score |-> score, found |-> found]]
    /\ UNCHANGED <<levels, unique_constraint, progress, current_xp, level_id>>

\* The row setattr leaves for update_data (lines 143-145).
Updated(row, score) ==
    IF score = NoScore THEN row ELSE [row EXCEPT !.score = score]

\* update_lesson_progress, lines 135-162: the fields are set, a passing score
\* reaches func.now() (no name func is bound in the module: NameError, the
\* session is dropped uncommitted), any other submission commits.
FinishProgress(r) ==
    /\ req[r].pc = "loaded"
    /\ LET u == req[r].user
           l == req[r].lesson
           score == req[r].score
           fresh == [user_id |-> u, lesson_id |-> l, is_completed |-> FALSE,
                     completed_at |-> FALSE, score |-> NoScore]
       IN IF score # NoScore /\ score >= 70
          THEN /\ req' = [req EXCEPT ![r] = Idle(500)]
               /\ UNCHANGED progress
          ELSE IF req[r].found # None
          THEN /\ progress' = [progress EXCEPT
                     ![req[r].found] = Updated(@, score)]
               /\ req' = [req EXCEPT ![r] = Idle(200)]
          ELSE IF unique_constraint /\ RowsOf(u, l) # {}
          THEN \* INSERT violates _user_lesson_uc: IntegrityError at commit
               /\ req' = [req EXCEPT ![r] = Idle(500)]
               /\ UNCHANGED progress
          ELSE /\ progress' = Append(progress, Updated(fresh, score))
               /\ req' = [req EXCEPT ![r] = Idle(200)]
    /\ UNCHANGED <<levels, unique_constraint, current_xp, level_id>>

\* The xp_required of the level row with this id; None without such a row
\* (the scalar subquery of lines 173-175 is NULL).
XpRequiredOf(id) ==
    IF \E lv \in levels : lv.id = id
    THEN (CHOOSE lv \in levels : lv.id = id).xp_required
    ELSE None

\* Lines 172-176: the level with the least xp_required above the held
\* level's; the empty set when there is none.
NextLevel(held) ==
    IF ~(\E lv \in levels : lv.id = held) THEN {}
    ELSE LET above == { lv \in levels : lv.xp_required > XpRequiredOf(held) }
         IN { lv \in above : \A o \in above : lv.xp_required <= o.xp_required }

\* User.can_level_up (lines 161-165): without a level row the answer is True;
\* otherwise the query keeps the levels whose xp_required is above current_xp
\* and the answer compares current_xp with the least of them.
can_level_up(u) ==
    IF ~(\E lv \in levels : lv.id = level_id[u]) THEN TRUE
    ELSE LET above == { lv \in levels : lv.xp_required > current_xp[u] }
             next_level == { lv \in above :
                               \A o \in above : lv.xp_required <= o.xp_required }
         IN \E lv \in next_level : current_xp[u] >= lv.xp_required

\* add_xp promoting straight to the highest level the new total pays for.
add_xp_to_highest(u, xp_amount) ==
    LET xp == current_xp[u] + xp_amount
        paid == { lv \in levels : lv.xp_required <= xp }
        top == { lv \in paid : \A o \in paid : o.xp_required <= lv.xp_required }
    IN /\ current_xp' = [current_xp EXCEPT ![u] = xp]
       /\ IF top # {}
          THEN \E lv \in top : level_id' = [level_id EXCEPT ![u] = lv.id]
          ELSE UNCHANGED level_id
       /\ UNCHANGED <<levels, unique_constraint, progress, req>>

\* User.add_xp (lines 167-183), then the caller's commit.
add_xp(u, xp_amount) ==
    LET xp == current_xp[u] + xp_amount
    IN /\ current_xp' = [current_xp EXCEPT ![u] = xp]
       /\ IF \E lv \in NextLevel(level_id[u]) : xp >= lv.xp_required
          THEN \E lv \in NextLevel(level_id[u]) :
                 level_id' = [level_id EXCEPT ![u] = lv.id]
          ELSE UNCHANGED level_id
       /\ UNCHANGED <<levels, unique_constraint, progress, req>>

(* ------------------------------ cache.py ------------------------------ *)
\* cache = CacheManager(maxsize=1000, ttl=300): the time-to-live, in seconds.
ttl == 300
\* The capacity of the cache (1000 in cache.py; the model's cache is small).
maxsize == 3
\* The clock moves in steps of half a time-to-live, up to MaxClock.
Tick == ttl \div 2
MaxClock == 300

\* Keys are strings, kept as sequences of characters.
ExpiryPrefix == <<"_", "e", "x", "p", "i", "r", "y", "_">>
\* f"_expiry_{key}"
expiry_key(key) == ExpiryPrefix \o key

\* "u7:x", "u17:x" and "c7:u7:x": a progress key of user 7, one of user 17,
\* and one of character 7 that holds "u7:" further in.
DataKeys == { <<"u", "7", ":", "x">>,
              <<"u", "1", "7", ":", "x">>,
              <<"c", "7", ":", "u", "7", ":", "x">> }
\* The keys that are written with an expire, or by cache_result.
ExpiringKeys == { <<"u", "7", ":", "x">> }
CacheKeys == DataKeys \cup { expiry_key(k) : k \in ExpiringKeys }
\* "u7:*", "*", "*:x" and the exact key "u7:x".
Patterns == { <<"u", "7", ":", "*">>, <<"*">>, <<"*", ":", "x">>,
              <<"u", "7", ":", "x">> }
Values == {1, 2}
\* expire: absent, or a number of seconds.
Expires == {None, 100}

\* str.startswith and str.endswith
StartsWith(key, prefix) ==
    /\ Len(prefix) <= Len(key)
    /\ SubSeq(key, 1, Len(prefix)) = prefix
EndsWith(key, suffix) ==
    /\ Len(suffix) <= Len(key)
    /\ SubSeq(key, Len(key) - Len(suffix) + 1, Len(key)) = suffix

\* ---- cachetools.TTLCache, on a store s = [c |-> items, l |-> keys] ----
\* An item is [key, value, expires]; c is in the order of the items' last
\* write (the order TTLCache iterates in), l in the order of last use.
WithoutKey(items, key) == SelectSeq(items, LAMBDA e : e.key # key)
WithoutName(keys, key) == SelectSeq(keys, LAMBDA k : k # key)

\* The key is stored, expired or not.
Stored(s, key) == \E i \in 1..Len(s.c) : s.c[i].key = key

\* TTLCache.__contains__: the key is stored and has not expired at time t.
Contains(s, t, key) ==
    \E i \in 1..Len(s.c) : s.c[i].key = key /\ t < s.c[i].expires

ItemOf(s, key) == s.c[CHOOSE i \in 1..Len(s.c) : s.c[i].key = key]

\* TTLCache.expire: the items whose time has come are removed.
Expire(s, t) ==
    [c |-> SelectSeq(s.c, LAMBDA e : t < e.expires),
     l |-> SelectSeq(s.l, LAMBDA k : Contains(s, t, k))]

\* TTLCache.__delitem__ of a stored key.
DelItem(s, key) == [c |-> WithoutKey(s.c, key), l |-> WithoutName(s.l, key)]

\* Cache.__setitem__'s loop: while the cache is full, popitem removes the
\* least recently used key.
RECURSIVE Evict(_)
Evict(s) ==
    IF Len(s.c) + 1 > maxsize /\ s.l # <<>>
    THEN Evict(DelItem(s, Head(s.l)))
    ELSE s

\* TTLCache.__setitem__ writing without room being made for a new key.
SetItem_unbounded(s, t, key, value) ==
    LET live == Expire(s, t)
    IN [c |-> Append(WithoutKey(live.c, key),
                     [key |-> key, value |-> value, expires |-> t + ttl]),
        l |-> Append(WithoutName(live.l, key), key)]

\* TTLCache.__setitem__: expired items are purged, room is made for a new
\* key, and the item is written with expires = t + ttl as the newest item
\* and the most recently used key.
SetItem(s, t, key, value) ==
    LET live == Expire(s, t)
        room == IF Stored(live, key) THEN live ELSE Evict(live)
    IN [c |-> Append(WithoutKey(room.c, key),
                     [key |-> key, value |-> value, expires |-> t + ttl]),
        l |-> Append(WithoutName(room.l, key), key)]

\* Cache.get serving an item whatever its age.
GetItem_no_expiry(s, t, key) ==
    IF Stored(s, key)
    THEN [s |-> [c |-> s.c, l |-> Append(WithoutName(s.l, key), key)],
          value |-> ItemOf(s, key).value]
    ELSE [s |-> s, value |-> None]

\* Cache.get: the value of a key that has not expired (the key becomes the
\* most recently used), None otherwise.
GetItem(s, t, key) ==
    IF Contains(s, t, key)
    THEN [s |-> [c |-> s.c, l |-> Append(WithoutName(s.l, key), key)],
          value |-> ItemOf(s, key).value]
    ELSE [s |-> s, value |-> None]

\* ---- CacheManager ----
Store == [c |-> cache, l |-> lru]

\* CacheManager.set (lines 38-49)
SetKey(s, t, key, value, expire) ==
    LET s1 == SetItem(s, t, key, value)
    IN IF expire # None
       THEN SetItem(s1, t, expiry_key(key), t + expire)
       ELSE s1

\* CacheManager.delete (lines 51-63)
DeleteKey(s, t, key) ==
    IF Contains(s, t, key)
    THEN LET s1 == DelItem(s, key)
         IN IF Contains(s1, t, expiry_key(key))
            THEN DelItem(s1, expiry_key(key))
            ELSE s1
    ELSE s

\* The keys TTLCache iterates over: the unexpired ones, oldest write first.
RECURSIVE KeysOf(_, _)
KeysOf(items, t) ==
    IF items = <<>> THEN <<>>
    ELSE (IF t < Head(items).expires THEN <<Head(items).key>> ELSE <<>>)
         \o KeysOf(Tail(items), t)

\* clear_pattern, lines 72-81: the keys the pattern selects.
keys_to_delete(s, t, pattern) ==
    IF pattern # <<>> /\ pattern[Len(pattern)] = "*"
    THEN SelectSeq(KeysOf(s.c, t),
             LAMBDA k : StartsWith(k, SubSeq(pattern, 1, Len(pattern) - 1)))
    ELSE IF pattern # <<>> /\ pattern[1] = "*"
    THEN SelectSeq(KeysOf(s.c, t), LAMBDA k : EndsWith(k, Tail(pattern)))
    ELSE IF Contains(s, t, pattern) THEN <<pattern>> ELSE <<>>

\* clear_pattern, lines 84-97: the keys are deleted one by one, each with its
\* companion; "del" of a key that is no longer stored raises KeyError, which
\* ends the call with the answer 0.
RECURSIVE DeleteKeys(_, _, _, _)
DeleteKeys(s, t, keys, count) ==
    IF keys = <<>> THEN [s |-> s, count |-> count]
    ELSE LET key == Head(keys)
         IN IF ~Stored(s, key) THEN [s |-> s, count |-> 0]
            ELSE LET s1 == DelItem(s, key)
                     s2 == IF /\ ~StartsWith(key, ExpiryPrefix)
                              /\ Contains(s1, t, expiry_key(key))
                           THEN DelItem(s1, expiry_key(key))
                           ELSE s1
                 IN DeleteKeys(s2, t, Tail(keys), count + 1)

\* cache_result's wrapper (lines 153-181) around a function that returns
\* result.
CachedCall(s, t, key, result, expire) ==
    LET hit == GetItem(s, t, key)
        stamp == GetItem(hit.s, t, expiry_key(key))
        fresh == hit.value # None /\ (stamp.value = None \/ t < stamp.value)
        before == IF hit.value = None THEN hit.s
                  ELSE DeleteKey(stamp.s, t, key)
        s1 == SetItem(before, t, key, result)
        s2 == IF expire # None
              THEN SetItem(s1, t, expiry_key(key), t + expire)
              ELSE s1
    IN IF fresh THEN [s |-> stamp.s, value |-> hit.value, invoked |-> FALSE]
       ELSE [s |-> s2, value |-> result, invoked |-> TRUE]

\* ---- the calls ----
\* Each call leaves in ret its name, its key and the value it read (get,
\* cache_result), wrote (set) or counted (clear_pattern).
\* No call was made since the clock last moved.
NoCall == [op |-> "none", key |-> <<>>, value |-> None]

get(key) ==
    LET r == GetItem(Store, now, key)
    IN /\ cache' = r.s.c
       /\ lru' = r.s.l
       /\ ret' = [op |-> "get", key |-> key, value |-> r.value]
       /\ UNCHANGED now

set(key, value, expire) ==
    LET s == SetKey(Store, now, key, value, expire)
    IN /\ cache' = s.c
       /\ lru' = s.l
       /\ ret' = [op |-> "set", key |-> key, value |-> value]
       /\ UNCHANGED now

delete(key) ==
    LET s == DeleteKey(Store, now, key)
    IN /\ cache' = s.c
       /\ lru' = s.l
       /\ ret' = [op |-> "delete", key |-> key, value |-> None]
       /\ UNCHANGED now

clear_pattern(pattern) ==
    LET r == DeleteKeys(Store, now, keys_to_delete(Store, now, pattern), 0)
    IN /\ cache' = r.s.c
       /\ lru' = r.s.l
       /\ ret' = [op |-> "clear_pattern", key |-> <<>>, value |-> r.count]
       /\ UNCHANGED now

cache_result(key, result, expire) ==
    LET r == CachedCall(Store, now, key, result, expire)
    IN /\ cache' = r.s.c
       /\ lru' = r.s.l
       /\ ret' = [op |-> "cache_result", key |-> key, value |-> r.value]
       /\ UNCHANGED now

\* ---- a function decorated with @cache_result(expire = calls.expire) ----
\* calls keeps the decorator's expire, and the time and the result of the
\* function's last run since its key was last invalidated.
DecoratorExpires == {100, ttl, 2 * ttl}
NoCalls == [expire |-> None, at |-> <<>>, result |-> None]

\* A call of the decorated function, which would return result if it ran.
decorated_call(key, result) ==
    /\ cache_result(key, result, calls.expire)
    /\ calls' = IF CachedCall(Store, now, key, result, calls.expire).invoked
                THEN [calls EXCEPT !.at = <<now>>, !.result = result]
                ELSE calls

\* The key is invalidated: cache.delete(key), or invalidate_cache_pattern
\* (lines 191-199) with a pattern.
invalidate_key(key) ==
    /\ delete(key)
    /\ calls' = [calls EXCEPT !.at = <<>>]

invalidate_cache_pattern(pattern) ==
    /\ clear_pattern(pattern)
    /\ calls' = [calls EXCEPT !.at = <<>>]

\* ---- CharacterCache, ProgressCache and the invalidation utilities ----
\* The characters of the words the keys are made of.
Chars(w) ==
    CASE w = "character" ->
        <<"c", "h", "a", "r", "a", "c", "t", "e", "r">>
      [] w = "characters" ->
        <<"c", "h", "a", "r", "a", "c", "t", "e", "r", "s">>
      [] w = "list" ->
        <<"l", "i", "s", "t">>
      [] w = "detail" ->
        <<"d", "e", "t", "a", "i", "l">>
      [] w = "search" ->
        <<"s", "e", "a", "r", "c", "h">>
      [] w = "stats" ->
        <<"s", "t", "a", "t", "s">>
      [] w = "overall" ->
        <<"o", "v", "e", "r", "a", "l", "l">>
      [] w = "progress" ->
        <<"p", "r", "o", "g", "r", "e", "s", "s">>
      [] w = "user" ->
        <<"u", "s", "e", "r">>
      [] w = "page:1" ->
        <<"p", "a", "g", "e", ":", "1">>
      [] w = "limit:12" ->
        <<"l", "i", "m", "i", "t", ":", "1", "2">>

\* str(id) of an id below 100
Digits == <<"0", "1", "2", "3", "4", "5", "6", "7", "8", "9">>
Str(id) ==
    IF id < 10 THEN <<Digits[id + 1]>>
    ELSE <<Digits[(id \div 10) + 1], Digits[(id % 10) + 1]>>

\* cache_key(*parts): ":".join(parts)
RECURSIVE cache_key(_)
cache_key(parts) ==
    IF Len(parts) = 1 THEN parts[1]
    ELSE parts[1] \o <<":">> \o cache_key(Tail(parts))

\* CharacterCache (lines 202-234), with the default page and limit and
\* without category and era.
get_character_list_key ==
    cache_key(<<Chars("characters"), Chars("list"), Chars("page:1"),
                Chars("limit:12")>>)
get_character_detail_key(character_id) ==
    cache_key(<<Chars("character"), Chars("detail"), Str(character_id)>>)
get_search_key(query) ==
    cache_key(<<Chars("characters"), Chars("search"), query>>)
get_stats_key(character_id) ==
    IF character_id # None
    THEN cache_key(<<Chars("stats"), Chars("character"), Str(character_id)>>)
    ELSE cache_key(<<Chars("stats"), Chars("overall")>>)

\* ProgressCache (lines 236-247)
get_user_progress_key(user_id) ==
    cache_key(<<Chars("progress"), Chars("user"), Str(user_id)>>)
get_character_progress_key(character_id, user_id) ==
    cache_key(<<Chars("progress"), Chars("character"), Str(character_id),
                Chars("user"), Str(user_id)>>)

\* The characters and users whose entries are cached, and a search query.
CachedCharacters == {7}
CachedUsers == {7, 17}
Queries == { <<"q">> }
CharacterCacheKeys ==
    {get_character_list_key, get_stats_key(None)}
    \cup { get_character_detail_key(c) : c \in CachedCharacters }
    \cup { get_search_key(q) : q \in Queries }
    \cup { get_stats_key(c) : c \in CachedCharacters }
ProgressCacheKeys ==
    { get_user_progress_key(u) : u \in CachedUsers }
    \cup { get_character_progress_key(c, u) :
             c \in CachedCharacters, u \in CachedUsers }

\* invalidate_cache_pattern for each pattern of the list, in its order.
RECURSIVE InvalidatePatterns(_, _, _)
InvalidatePatterns(s, t, patterns) ==
    IF patterns = <<>> THEN s
    ELSE InvalidatePatterns(
             DeleteKeys(s, t, keys_to_delete(s, t, Head(patterns)), 0).s,
             t, Tail(patterns))

\* invalidate_character_cache (lines 250-257)
invalidate_character_cache(character_id) ==
    LET patterns ==
            <<Chars("character") \o <<":", "*">> >>
            \o (IF character_id # None
                THEN <<cache_key(<<Chars("character"), Str(character_id),
                                   <<"*">> >>)>>
                ELSE <<>>)
        s == InvalidatePatterns(Store, now, patterns)
    IN /\ cache' = s.c
       /\ lru' = s.l
       /\ ret' = [op |-> "invalidate_character_cache", key |-> <<>>,
                  value |-> character_id]
       /\ UNCHANGED now

\* invalidate_progress_cache (lines 259-268)
invalidate_progress_cache(user_id, character_id) ==
    LET patterns ==
            <<Chars("progress") \o <<":", "*">> >>
            \o (IF user_id # None
                THEN <<cache_key(<<Chars("progress"), Chars("user"),
                                   Str(user_id), <<"*">> >>)>>
                ELSE <<>>)
            \o (IF character_id # None
                THEN <<cache_key(<<Chars("progress"), Chars("character"),
                                   Str(character_id), <<"*">> >>)>>
                ELSE <<>>)
        s == InvalidatePatterns(Store, now, patterns)
    IN /\ cache' = s.c
       /\ lru' = s.l
       /\ ret' = [op |-> "invalidate_progress_cache", key |-> <<>>,
                  value |-> user_id]
       /\ UNCHANGED now

(* --------------------- learning_paths.py: skip_quiz ------------------- *)
\* Lesson rows the table may hold together.
MaxLessons == 4
\* quiz_attempts of a skip request.
Attempts == {2, 3, 4}
\* Lesson rows: three active lessons of path 1 with different sort_order,
\* an inactive lesson of path 1 and an active lesson of path 2.
LessonRows ==
    { [path_id |-> 1, sort_order |-> so, is_active |-> TRUE] : so \in 1..3 }
    \cup { [path_id |-> 1, sort_order |-> 2, is_active |-> FALSE],
           [path_id |-> 2, sort_order |-> 2, is_active |-> TRUE] }

NoAnswer == [code |-> 0, can_skip |-> FALSE, unlocked_lessons |-> <<>>]

\* Lines 200-204: the active lessons of the path with a greater sort_order.
NextLessons(lesson_id) ==
    { m \in 1..Len(lessons) :
        /\ lessons[m].path_id = lessons[lesson_id].path_id
        /\ lessons[m].sort_order > lessons[lesson_id].sort_order
        /\ lessons[m].is_active }

\* .limit(2).all() of a query that has no ORDER BY: at most two of the rows,
\* whichever the database returns, in the order it returns them.
LimitTwo(rows) ==
    IF Cardinality(rows) <= 1 THEN { <<m>> : m \in rows } \cup
                                    (IF rows = {} THEN {<<>>} ELSE {})
    ELSE { <<m, n>> : m \in rows, n \in rows } \ { <<m, m>> : m \in rows }

\* skip_quiz answering every learner who asked, whatever the attempts.
skip_quiz_always(lesson_id, quiz_attempts) ==
    /\ IF lesson_id \notin 1..Len(lessons) \/ ~lessons[lesson_id].is_active
       THEN skip' = [NoAnswer EXCEPT !.code = 404]
       ELSE \E unlocked \in LimitTwo(NextLessons(lesson_id)) :
              skip' = [code |-> 200, can_skip |-> TRUE,
                       unlocked_lessons |-> unlocked]
    /\ UNCHANGED lessons

\* POST /lessons/{lesson_id}/skip-quiz (lines 164-217).  The progress row the
\* handler adds is never committed.
skip_quiz(lesson_id, quiz_attempts) ==
    /\ IF lesson_id \notin 1..Len(lessons) \/ ~lessons[lesson_id].is_active
       THEN skip' = [NoAnswer EXCEPT !.code = 404]
       ELSE IF quiz_attempts >= 3
       THEN \E unlocked \in LimitTwo(NextLessons(lesson_id)) :
              skip' = [code |-> 200, can_skip |-> TRUE,
                       unlocked_lessons |-> unlocked]
       ELSE skip' = [code |-> 200, can_skip |-> FALSE,
                     unlocked_lessons |-> <<>>]
    /\ UNCHANGED lessons

(* ------------------------------ admin.py ------------------------------ *)
\* Users 1 and 2 and character 1 exist; id 3 (a user) and id 2 (a
\* character) do not.
UserIds == {1, 2}
CharacterIds == {1}
\* An Optional[bool] query parameter: absent, or one value.
OptionalBool == {<<>>, <<TRUE>>, <<FALSE>>}
\* Optional[str] full_name.
OptionalName == {<<>>, <<"n">>}
\* action: the supported actions and an unsupported one.
Actions == {"toggle", "reset_password", "update", "purge"}
\* The endpoints that only read.
ReadEndpoints == {"stats", "users", "characters", "health", "health-check",
                  "logs", "backup", "metrics"}

\* is_admin_user (lines 16-18)
is_admin_user(user) == users[user].is_superuser

\* get_admin_stats, get_users, get_characters, get_system_health,
\* run_health_check, get_system_logs, create_backup, get_detailed_metrics.
read_endpoint(caller, endpoint) ==
    /\ admin_resp' = IF ~is_admin_user(caller) THEN 403 ELSE 200
    /\ UNCHANGED <<users, characters>>

\* manage_user carrying out the action before it looks at the caller.
manage_user_unchecked(caller, user_id, action, full_name, is_active, is_superuser) ==
    /\ IF user_id \notin UserIds \/ action # "toggle"
       THEN /\ admin_resp' = IF ~is_admin_user(caller) THEN 403 ELSE 500
            /\ UNCHANGED users
       ELSE /\ users' = [users EXCEPT ![user_id].is_active = ~@]
            /\ admin_resp' = IF ~is_admin_user(caller) THEN 403 ELSE 200
    /\ UNCHANGED characters

\* PUT /users/{user_id} (lines 99-145).  The HTTPException raised for a
\* missing user (404) or an unknown action (400) is raised inside the try
\* block, whose "except Exception" turns it into a 500.
manage_user(caller, user_id, action, full_name, is_active, is_superuser) ==
    /\ IF ~is_admin_user(caller)
       THEN /\ admin_resp' = 403
            /\ UNCHANGED users
       ELSE IF user_id \notin UserIds
       THEN /\ admin_resp' = 500
            /\ UNCHANGED users
       ELSE IF action = "toggle"
       THEN /\ users' = [users EXCEPT ![user_id].is_active = ~@]
            /\ admin_resp' = 200
       ELSE IF action = "reset_password"
       THEN /\ users' = [users EXCEPT ![user_id].hashed_password = "temp"]
            /\ admin_resp' = 200
       ELSE IF action = "update"
       THEN /\ users' = [users EXCEPT ![user_id] =
                  [@ EXCEPT
                     !.full_name = IF full_name # <<>>
                                   THEN full_name[1] ELSE @,
                     !.is_active = IF is_active # <<>>
                                   THEN is_active[1] ELSE @,
                     !.is_superuser = IF is_superuser # <<>>
                                      THEN is_superuser[1] ELSE @]]
            /\ admin_resp' = 200
       ELSE /\ admin_resp' = 500
            /\ UNCHANGED users
    /\ UNCHANGED characters

\* PUT /characters/{character_id} (lines 181-216), with the same try block.
manage_character(caller, character_id, action, is_active, is_featured) ==
    /\ IF ~is_admin_user(caller)
       THEN /\ admin_resp' = 403
            /\ UNCHANGED characters
       ELSE IF character_id \notin CharacterIds
       THEN /\ admin_resp' = 500
            /\ UNCHANGED characters
       ELSE IF action = "toggle"
       THEN /\ characters' = [characters EXCEPT ![character_id].is_active = ~@]
            /\ admin_resp' = 200
       ELSE IF action = "update"
       THEN /\ characters' = [characters EXCEPT ![character_id] =
                  [@ EXCEPT
                     !.is_active = IF is_active # <<>>
                                   THEN is_active[1] ELSE @,
                     !.is_featured = IF is_featured # <<>>
                                     THEN is_featured[1] ELSE @]]
            /\ admin_resp' = 200
       ELSE /\ admin_resp' = 500
            /\ UNCHANGED characters
    /\ UNCHANGED users

(* --------------------------- health_check.py -------------------------- *)
Services == {"backend", "frontend", "database", "system", "docker", "external"}
\* A run without --service (args.service is None).
AllServices == "all"

\* The statuses each check_* method can return.
StatusesOf(service) ==
    IF service \in {"backend", "frontend"}
    THEN {"healthy", "unhealthy", "down", "timeout", "error"}
    ELSE IF service = "database" THEN {"healthy", "missing", "error"}
    ELSE IF service = "system" THEN {"healthy", "warning", "critical", "error"}
    ELSE IF service = "docker"
    THEN {"healthy", "no_containers", "down", "error"}
    ELSE {"healthy"}

\* What the six probes may find.
Probes ==
    [backend : StatusesOf("backend"), frontend : StatusesOf("frontend"),
     database : StatusesOf("database"), system : StatusesOf("system"),
     docker : StatusesOf("docker"), external : StatusesOf("external")]

\* run_all_checks (lines 296-305): the overall status of the six statuses.
overall_status(checks) ==
    LET statuses == { checks[s] : s \in DOMAIN checks }
    IN IF "critical" \in statuses \/ "down" \in statuses THEN "critical"
       ELSE IF "error" \in statuses \/ "timeout" \in statuses THEN "unhealthy"
       ELSE IF "warning" \in statuses THEN "warning"
       ELSE "healthy"

\* main's sys.exit (lines 391-396).
exit_code(status) ==
    IF status \in {"critical", "unhealthy", "down"} THEN 1
    ELSE IF status = "warning" THEN 2
    ELSE 0

\* The methods main's getattr (line 375) finds: check_<service>_health.
HealthMethods == {"backend", "frontend", "database"}

NotRun == [service |-> AllServices, checks |-> [s \in {} |-> ""],
           overall_status |-> "", exit_code |-> <<>>]

\* main (lines 361-396).  With --service, getattr raises AttributeError for
\* the services whose method is not named check_<service>_health, and
\* print_results (line 321) raises KeyError on results['checks'] for the
\* others: either way the interpreter ends with exit code 1.
main(service, probe) ==
    IF service = AllServices
    THEN health' = [service |-> service,
                    checks |-> probe,
                    overall_status |-> overall_status(probe),
                    exit_code |-> <<exit_code(overall_status(probe))>>]
    ELSE IF service \notin HealthMethods
    THEN health' = [service |-> service,
                    checks |-> [s \in {} |-> ""],
                    overall_status |-> "",
                    exit_code |-> <<1>>]
    ELSE health' = [service |-> service,
                    checks |-> [s \in {service} |-> probe[s]],
                    overall_status |-> probe[service],
                    exit_code |-> <<1>>]

(* ------------------------- the states at rest ------------------------- *)
CacheIdle ==
    /\ cache = <<>>
    /\ lru = <<>>
    /\ now = 0
    /\ ret = NoCall

SkipIdle ==
    /\ lessons = <<>>
    /\ skip = NoAnswer

\* User 1 is a superuser, user 2 is not.
AdminIdle ==
    /\ users = [u \in UserIds |->
                  [is_active |-> TRUE, is_superuser |-> (u = 1),
                   full_name |-> "a", hashed_password |-> "set"]]
    /\ characters = [c \in CharacterIds |->
                       [is_active |-> TRUE, is_featured |-> FALSE]]
    /\ admin_resp = 0

\* The decorated function was never called; health_check.py was never run.
AuxIdle ==
    /\ calls = NoCalls
    /\ health = NotRun

OtherIdle == CacheIdle /\ SkipIdle /\ AdminIdle /\ AuxIdle

(* ------------------------- the pipeline system ------------------------ *)
\* The platform lists a publish request carries ("platforms": [{id, url}]).
PlatformLists == {<<>>, <<1>>, <<1, 2>>, <<2, 2>>}

\* Rows stored in the production, script and publication tables.
PipelineRows == Len(productions) + Len(scripts) + Len(publications)

\* Rows stored in all pipeline tables together.
RowCount ==
    PipelineRows + Len(illustrations) + Len(voice_recordings) + Len(animations)

PipelineInit ==
    /\ productions = <<>>
    /\ scripts = <<>>
    /\ illustrations = <<>>
    /\ voice_recordings = <<>>
    /\ animations = <<>>
    /\ files = {}
    /\ publications = <<>>
    /\ tasks = 0
    /\ resp = Answer(0)
    /\ LearnIdle
    /\ CacheIdle
    /\ SkipIdle
    /\ AdminIdle
    /\ AuxIdle

\* Requests, each with the room the tables still have ("room" bounds the
\* rows a request may add).
CreateProduction(room) ==
    /\ room >= 1
    /\ \E u \in Users, c \in Characters \cup {None}, complete \in BOOLEAN,
          s0 \in InitialStatuses :
           create_content_production(u, c, complete, s0)
    /\ UNCHANGED <<learnVars, otherVars>>

CreateScript(room) ==
    /\ room >= 1
    /\ \E u \in Users, c \in Characters \cup {None}, complete \in BOOLEAN :
           create_script(u, c, complete)
    /\ UNCHANGED <<learnVars, otherVars>>

SubmitScript ==
    /\ \E u \in Users, s \in 1..(Len(scripts) + 1) :
           submit_script_for_review(u, s)
    /\ UNCHANGED <<learnVars, otherVars>>

ApproveScript ==
    /\ \E u \in Users, s \in 1..(Len(scripts) + 1) : approve_script(u, s)
    /\ UNCHANGED <<learnVars, otherVars>>

CreateIllustration(room) ==
    /\ room >= 1
    /\ \E u \in Users, complete \in BOOLEAN : create_illustration(u, complete)
    /\ UNCHANGED <<learnVars, otherVars>>

UploadIllustration ==
    /\ \E u \in Users, i \in 1..(Len(illustrations) + 1),
          t \in IllustrationFileTypes :
           upload_illustration_file(u, i, t)
    /\ UNCHANGED <<learnVars, otherVars>>

CreateVoice(room) ==
    /\ room >= 1
    /\ \E u \in Users, complete \in BOOLEAN :
           create_voice_recording(u, complete)
    /\ UNCHANGED <<learnVars, otherVars>>

UploadVoice ==
    /\ \E u \in Users, i \in 1..(Len(voice_recordings) + 1) :
           upload_voice_file(u, i)
    /\ UNCHANGED <<learnVars, otherVars>>

CreateAnimation(room) ==
    /\ room >= 1
    /\ \E u \in Users, complete \in BOOLEAN : create_animation(u, complete)
    /\ UNCHANGED <<learnVars, otherVars>>

UploadAnimation ==
    /\ \E u \in Users, i \in 1..(Len(animations) + 1), t \in AnimationFileTypes :
           upload_animation_file(u, i, t)
    /\ UNCHANGED <<learnVars, otherVars>>

Publish(room) ==
    /\ \E u \in Users, p \in 1..(Len(productions) + 1), pl \in PlatformLists :
           /\ Len(pl) <= room
           /\ publish_content(u, p, pl)
    /\ UNCHANGED <<learnVars, otherVars>>

\* Productions, scripts and publications.
PipelineNext ==
    \/ CreateProduction(MaxRows - PipelineRows)
    \/ CreateScript(MaxRows - PipelineRows)
    \/ SubmitScript
    \/ ApproveScript
    \/ Publish(MaxRows - PipelineRows)

SpecPipeline == PipelineInit /\ [][PipelineNext]_vars

\* Every mutating handler of content_pipeline.py.
ContentNext ==
    \/ CreateProduction(MaxContentRows - RowCount)
    \/ CreateScript(MaxContentRows - RowCount)
    \/ SubmitScript
    \/ ApproveScript
    \/ CreateIllustration(MaxContentRows - RowCount)
    \/ UploadIllustration
    \/ CreateVoice(MaxContentRows - RowCount)
    \/ UploadVoice
    \/ CreateAnimation(MaxContentRows - RowCount)
    \/ UploadAnimation
    \/ Publish(MaxContentRows - RowCount)

SpecContent == PipelineInit /\ [][ContentNext]_vars

(* ------------------------- the learning system ------------------------ *)
PipelineEmpty ==
    /\ productions = <<>>
    /\ scripts = <<>>
    /\ illustrations = <<>>
    /\ voice_recordings = <<>>
    /\ animations = <<>>
    /\ files = {}
    /\ publications = <<>>
    /\ tasks = 0
    /\ resp = Answer(0)

\* The schema is built by migration 002 (with _user_lesson_uc) or by
\* Base.metadata.create_all from models.py (without it).
LearnInit ==
    /\ PipelineEmpty
    /\ CacheIdle
    /\ SkipIdle
    /\ AdminIdle
    /\ AuxIdle
    /\ levels = CHOOSE t \in LevelTables : TRUE
    /\ unique_constraint \in BOOLEAN
    /\ progress = <<>>
    /\ current_xp = [u \in LearnUsers |-> 0]
    /\ level_id = [u \in LearnUsers |-> 1]
    /\ req = [r \in Slots |-> Idle(0)]

Begin ==
    /\ \E r \in Slots, u \in RequestUsers, l \in LessonIds, score \in Scores :
          BeginProgress(r, u, l, score)
    /\ UNCHANGED <<pipeVars, resp, otherVars>>
Finish ==
    /\ \E r \in Slots :
          /\ req[r].pc = "loaded"
          /\ Len(progress) < MaxProgressRows \/ req[r].found # None
          /\ FinishProgress(r)
    /\ UNCHANGED <<pipeVars, resp, otherVars>>

LearnNext ==
    \/ Begin
    \/ Finish

SpecLearn == LearnInit /\ [][LearnNext]_vars

XpInit ==
    /\ PipelineEmpty
    /\ CacheIdle
    /\ SkipIdle
    /\ AdminIdle
    /\ AuxIdle
    /\ levels \in LevelTables
    /\ unique_constraint = TRUE
    /\ progress = <<>>
    /\ current_xp = [u \in LearnUsers |-> 0]
    /\ level_id = [u \in LearnUsers |-> 1]
    /\ req = [r \in Slots |-> Idle(0)]

AddXp ==
    /\ \E u \in LearnUsers, a \in XpAmounts :
          /\ current_xp[u] + a <= MaxXp
          /\ add_xp(u, a)
    /\ UNCHANGED <<pipeVars, resp, otherVars>>

XpNext == AddXp

SpecXp == XpInit /\ [][XpNext]_vars

(* ---------------- the cache, skip-quiz and admin systems -------------- *)
CacheInit ==
    /\ PipelineEmpty
    /\ LearnIdle
    /\ CacheIdle
    /\ SkipIdle
    /\ AdminIdle
    /\ AuxIdle

CacheSet ==
    /\ \E key \in DataKeys, value \in Values :
          \E expire \in (IF key \in ExpiringKeys THEN Expires ELSE {None}) :
             set(key, value, expire)
    /\ UNCHANGED <<pipeVars, resp, learnVars, auxVars, skipVars, adminVars>>

CacheGet ==
    /\ \E key \in CacheKeys : get(key)
    /\ UNCHANGED <<pipeVars, resp, learnVars, auxVars, skipVars, adminVars>>

CacheDelete ==
    /\ \E key \in CacheKeys : delete(key)
    /\ UNCHANGED <<pipeVars, resp, learnVars, auxVars, skipVars, adminVars>>

ClearPattern ==
    /\ \E pattern \in Patterns : clear_pattern(pattern)
    /\ UNCHANGED <<pipeVars, resp, learnVars, auxVars, skipVars, adminVars>>

CacheResult ==
    /\ \E key \in ExpiringKeys, result \in Values, expire \in Expires :
          cache_result(key, result, expire)
    /\ UNCHANGED <<pipeVars, resp, learnVars, auxVars, skipVars, adminVars>>

\* Time passes.
Advance ==
    /\ now + Tick <= MaxClock
    /\ now' = now + Tick
    /\ ret' = NoCall
    /\ UNCHANGED <<cache, lru>>
    /\ UNCHANGED <<pipeVars, resp, learnVars, auxVars, skipVars, adminVars>>

CacheNext ==
    \/ CacheSet
    \/ CacheGet
    \/ CacheDelete
    \/ ClearPattern
    \/ CacheResult
    \/ Advance

SpecCache == CacheInit /\ [][CacheNext]_vars

\* The Lesson table holds any rows, inserted in any order.
SkipInit ==
    /\ PipelineEmpty
    /\ LearnIdle
    /\ CacheIdle
    /\ AdminIdle
    /\ AuxIdle
    /\ lessons \in UNION { [1..n -> LessonRows] : n \in 0..MaxLessons }
    /\ skip = NoAnswer

SkipQuiz ==
    /\ \E lesson_id \in 1..(Len(lessons) + 1), quiz_attempts \in Attempts :
          skip_quiz(lesson_id, quiz_attempts)
    /\ UNCHANGED <<pipeVars, resp, learnVars, auxVars, cacheVars, adminVars>>

SkipNext == SkipQuiz

SpecSkip == SkipInit /\ [][SkipNext]_vars

AdminInit ==
    /\ PipelineEmpty
    /\ LearnIdle
    /\ CacheIdle
    /\ SkipIdle
    /\ AdminIdle
    /\ AuxIdle

\* The optional parameters of a request: only "update" reads them.
UserParams(action) ==
    IF action = "update"
    THEN OptionalName \X OptionalBool \X OptionalBool
    ELSE {<<<<>>, <<>>, <<>>>>}
CharacterParams(action) ==
    IF action = "update" THEN OptionalBool \X OptionalBool
    ELSE {<<<<>>, <<>>>>}

ReadEndpoint ==
    /\ \E caller \in UserIds, endpoint \in ReadEndpoints :
          read_endpoint(caller, endpoint)
    /\ UNCHANGED <<pipeVars, resp, learnVars, auxVars, cacheVars, skipVars>>

ManageUser ==
    /\ \E caller \in UserIds, user_id \in UserIds \cup {3}, action \in Actions :
          \E p \in UserParams(action) :
             manage_user(caller, user_id, action, p[1], p[2], p[3])
    /\ UNCHANGED <<pipeVars, resp, learnVars, auxVars, cacheVars, skipVars>>

ManageCharacter ==
    /\ \E caller \in UserIds, character_id \in CharacterIds \cup {2},
          action \in Actions :
          \E p \in CharacterParams(action) :
             manage_character(caller, character_id, action, p[1], p[2])
    /\ UNCHANGED <<pipeVars, resp, learnVars, auxVars, cacheVars, skipVars>>

AdminNext ==
    \/ ReadEndpoint
    \/ ManageUser
    \/ ManageCharacter

SpecAdmin == AdminInit /\ [][AdminNext]_vars

(* ------------- the decorated function and the health check ----------- *)
\* A function decorated with cache_result, with any of the expires.
ReadThroughInit ==
    /\ PipelineEmpty
    /\ LearnIdle
    /\ CacheIdle
    /\ SkipIdle
    /\ AdminIdle
    /\ calls \in { [NoCalls EXCEPT !.expire = e] : e \in DecoratorExpires }
    /\ health = NotRun

DecoratedCall ==
    /\ \E key \in ExpiringKeys, result \in Values : decorated_call(key, result)
    /\ UNCHANGED <<pipeVars, resp, learnVars, skipVars, adminVars, health>>

InvalidateKey ==
    /\ \E key \in ExpiringKeys : invalidate_key(key)
    /\ UNCHANGED <<pipeVars, resp, learnVars, skipVars, adminVars, health>>

InvalidatePattern ==
    /\ \E pattern \in Patterns : invalidate_cache_pattern(pattern)
    /\ UNCHANGED <<pipeVars, resp, learnVars, skipVars, adminVars, health>>

ReadThroughNext ==
    \/ DecoratedCall
    \/ InvalidateKey
    \/ InvalidatePattern
    \/ Advance

SpecReadThrough == ReadThroughInit /\ [][ReadThroughNext]_vars

\* One run of health_check.py, from its start to its exit.
HealthInit ==
    /\ PipelineEmpty
    /\ LearnIdle
    /\ CacheIdle
    /\ SkipIdle
    /\ AdminIdle
    /\ AuxIdle

RunAllChecks ==
    /\ health = NotRun
    /\ \E probe \in Probes : main(AllServices, probe)
    /\ UNCHANGED <<pipeVars, resp, learnVars, cacheVars, skipVars, adminVars,
                   calls>>

RunServiceCheck ==
    /\ health = NotRun
    /\ \E service \in Services :
          \E status \in StatusesOf(service) :
             main(service, [s \in {service} |-> status])
    /\ UNCHANGED <<pipeVars, resp, learnVars, cacheVars, skipVars, adminVars,
                   calls>>

HealthNext ==
    \/ RunAllChecks
    \/ RunServiceCheck

SpecHealth == HealthInit /\ [][HealthNext]_vars

(* ---------------- the character and progress caches ------------------ *)
InvalidateInit ==
    /\ PipelineEmpty
    /\ LearnIdle
    /\ CacheIdle
    /\ SkipIdle
    /\ AdminIdle
    /\ AuxIdle

\* A service caches an entry under a CharacterCache or ProgressCache key.
CacheEntry ==
    /\ \E key \in CharacterCacheKeys \cup ProgressCacheKeys, value \in Values :
          set(key, value, None)
    /\ UNCHANGED <<pipeVars, resp, learnVars, auxVars, skipVars, adminVars>>

InvalidateCharacterCache ==
    /\ \E character_id \in CachedCharacters \cup {None} :
          invalidate_character_cache(character_id)
    /\ UNCHANGED <<pipeVars, resp, learnVars, auxVars, skipVars, adminVars>>

InvalidateProgressCache ==
    /\ \E user_id \in CachedUsers \cup {None},
          character_id \in CachedCharacters \cup {None} :
          invalidate_progress_cache(user_id, character_id)
    /\ UNCHANGED <<pipeVars, resp, learnVars, auxVars, skipVars, adminVars>>

InvalidateNext ==
    \/ CacheEntry
    \/ InvalidateCharacterCache
    \/ InvalidateProgressCache

SpecInvalidate == InvalidateInit /\ [][InvalidateNext]_vars

(* ------------------------------- claims ------------------------------- *)

\* C1: a production's completion_percentage never decreases, whatever
\* lifecycle call is made (create production, create script, approve script,
\* publish), in any order.
C1_CompletionNeverDecreases ==
    [][\A p \in 1..Len(productions) :
         productions'[p].completion_percentage
             >= productions[p].completion_percentage]_vars

\* A request of update_lesson_progress that is answered in this step.
Answered(r) == req[r].pc = "loaded" /\ req'[r].pc = "idle"

\* C2: a submission with score >= 70 on an existing active lesson is answered
\* with success and leaves the caller's committed row of that lesson with
\* is_completed set and completed_at set.
C2_PassingSubmissionCompletes ==
    [][\A r \in Slots :
         (Answered(r) /\ req[r].score >= 70 /\ ActiveLesson(req[r].lesson))
         => /\ req'[r].code = 200
            /\ \E i \in 1..Len(progress') :
                 /\ progress'[i].user_id = req[r].user
                 /\ progress'[i].lesson_id = req[r].lesson
                 /\ progress'[i].is_completed
                 /\ progress'[i].completed_at]_vars

\* The submission of request r newly crosses the completion threshold: its
\* score passes and the row it read was not completed yet.
NewlyCrossing(r) ==
    /\ req[r].score >= 70
    /\ req[r].found # None => ~progress[req[r].found].is_completed

\* C3: one XP award is applied per submission that newly crosses the
\* completion threshold, and none by any other submission.
C3_OneAwardPerCrossing ==
    [][\A r \in Slots :
         Answered(r)
         => (NewlyCrossing(r)
               <=> current_xp'[req[r].user] > current_xp[req[r].user])]_vars

\* C4: one submission adds 15 to current_xp for a score >= 90, 10 for a score
\* from 70 up to 90, and nothing for a lower or an absent score.
C4_XpTiers ==
    [][\A r \in Slots :
         Answered(r)
         => current_xp'[req[r].user] - current_xp[req[r].user]
              = (IF req[r].score >= 90 THEN 15
                 ELSE IF req[r].score >= 70 THEN 10 ELSE 0)]_vars

\* C5: at most one UserLessonProgress row exists per (user, lesson) in every
\* reachable state, also when two requests of one user for one lesson
\* interleave.
C5_OneRowPerUserLesson ==
    \A u \in LearnUsers, l \in LessonIds : Cardinality(RowsOf(u, l)) <= 1

\* The level whose threshold is the greatest one that xp meets.
Unlocked(xp) ==
    CHOOSE lv \in levels :
        /\ lv.xp_required <= xp
        /\ \A o \in levels : o.xp_required <= xp
                                => o.xp_required <= lv.xp_required

\* C6: after every XP award the user holds the level with the greatest
\* xp_required that is <= current_xp.
C6_LevelMatchesXp ==
    [][\A u \in LearnUsers :
         current_xp'[u] # current_xp[u]
         => level_id'[u] = Unlocked(current_xp'[u]).id]_vars

C8_RefusedRequestChangesNothing ==
    [][resp'.code \in {403, 404} => UNCHANGED pipeStore]_vars

\* A request is refused after rows and files were stored.
C8_Witness ==
    /\ resp.code \in {403, 404}
    /\ files # {}
    /\ RowCount = MaxContentRows

\* C9: on every mutating handler, a caller who is not a team member gets 403
\* (or 404 for a missing target), never an internal error.
C9_NonMemberIsForbidden ==
    [][\A u \in Users :
         (/\ TeamMemberOf(u) = None
          /\ \/ \E s \in 1..(Len(scripts) + 1) : submit_script_for_review(u, s)
             \/ \E s \in 1..(Len(scripts) + 1) : approve_script(u, s)
             \/ \E i \in 1..(Len(illustrations) + 1),
                   t \in IllustrationFileTypes :
                     upload_illustration_file(u, i, t)
             \/ \E i \in 1..(Len(voice_recordings) + 1) :
                     upload_voice_file(u, i)
             \/ \E i \in 1..(Len(animations) + 1), t \in AnimationFileTypes :
                     upload_animation_file(u, i, t)
             \/ \E p \in 1..(Len(productions) + 1), pl \in PlatformLists :
                     publish_content(u, p, pl)
             \/ \E c \in Characters \cup {None}, complete \in BOOLEAN :
                     \/ \E s0 \in InitialStatuses :
                           create_content_production(u, c, complete, s0)
                     \/ create_script(u, c, complete)
                     \/ create_illustration(u, complete)
                     \/ create_voice_recording(u, complete)
                     \/ create_animation(u, complete))
         => resp'.code \in {403, 404}]_vars

\* C10: every production's current_stage is one of the seven named stages.
C10_StageIsNamed ==
    \A p \in 1..Len(productions) : productions[p].current_stage \in Stages

\* The order of the stages; "drawing", the stage approve_script leaves, stands
\* where illustration stands (the stage that follows an approved script).
StageOrder == <<"idea", "scripting", "illustration", "voice_recording",
                "animation", "review", "published">>
StageRank(stage) ==
    IF stage = "drawing" THEN 3
    ELSE CHOOSE i \in 1..Len(StageOrder) : StageOrder[i] = stage

C12_ScriptLifecycle ==
    [][/\ \A s \in (Len(scripts) + 1)..Len(scripts') :
            scripts'[s].status = "draft"
       /\ \A s \in 1..Len(scripts) :
            /\ (scripts'[s].status = "approved"
                  /\ scripts[s].status # "approved")
               => scripts[s].status = "pending_review"
            /\ scripts[s].status = "approved"
               => scripts'[s].status = "approved"]_vars

\* C20: a Publication row, once created by publish, is never modified or
\* deleted by any content-pipeline operation; later requests only add rows
\* after it.
C20_PublicationsImmutable ==
    [][/\ Len(publications') >= Len(publications)
       /\ SubSeq(publications', 1, Len(publications)) = publications]_vars

\* A production is published a second time: its first Publication row is
\* still there, followed by the row of the second publish.
C20_Witness ==
    /\ resp = [code |-> 200, count |-> 1]
    /\ Len(publications) = 2
    /\ publications[1].content_production_id
           = publications[2].content_production_id

\* The time of the last write of a stored key: TTLCache stamps every write
\* with expires = time of the write + ttl.
WrittenAt(s, key) == ItemOf(s, key).expires - ttl

\* C13: set(key, value) stores value under key, stamped with the time of the
\* call; get(key) returns the stored value while less than ttl (300) seconds
\* have passed since that write and the key was not removed, and absent once
\* ttl seconds have passed, so no value is served 300 seconds or more after
\* it was written.
C13_FreshForTtl ==
    /\ ret.op = "set"
       => /\ Stored(Store, ret.key)
          /\ ItemOf(Store, ret.key).value = ret.value
          /\ WrittenAt(Store, ret.key) = now
    /\ ret.op = "get"
       => ret.value =
            IF Stored(Store, ret.key) /\ now - WrittenAt(Store, ret.key) < ttl
            THEN ItemOf(Store, ret.key).value
            ELSE None

\* A key written at time 0 is still stored when it is read at time 300, and
\* the read answers absent.
C13_Witness ==
    /\ now = ttl
    /\ \E key \in DataKeys :
         /\ ret = [op |-> "get", key |-> key, value |-> None]
         /\ Stored(Store, key)
         /\ WrittenAt(Store, key) = 0

\* The patterns of the form "P*".
PrefixPatterns == { p \in Patterns : p[Len(p)] = "*" }

\* C14: clear_pattern("P*") removes exactly the cached keys that start with
\* P, and the _expiry_ companions of those keys; every other cached key is
\* still cached with its value afterwards.
C14_ClearsExactlyThePrefix ==
    [][\A pattern \in PrefixPatterns :
         clear_pattern(pattern)
         => LET P == SubSeq(pattern, 1, Len(pattern) - 1)
                after == [c |-> cache', l |-> lru']
                Companion(key) ==
                    \E k \in DataKeys :
                       /\ key = expiry_key(k)
                       /\ StartsWith(k, P)
                       /\ Contains(Store, now, k)
            IN \A key \in CacheKeys :
                 Contains(Store, now, key)
                 => IF StartsWith(key, P) THEN ~Contains(after, now, key)
                    ELSE IF Companion(key) THEN TRUE
                    ELSE /\ Contains(after, now, key)
                         /\ ItemOf(after, key) = ItemOf(Store, key)]_vars

\* C15: the cache never holds more than maxsize entries, data keys and
\* _expiry_ companions together, and a key written with an explicit expire
\* holds two of them: the key and its companion.
C15_FixedSize ==
    [][/\ Len(cache) <= maxsize
       /\ Len(cache') <= maxsize
       /\ \A key \in ExpiringKeys, value \in Values, expire \in Expires :
            (expire # None /\ ret'.op = "set" /\ set(key, value, expire))
            => /\ Stored([c |-> cache', l |-> lru'], key)
               /\ Stored([c |-> cache', l |-> lru'], expiry_key(key))]_vars

\* A key was just written with an expire into a cache that is now full: the
\* key and its companion are the two newest of its maxsize entries.
C15_Witness ==
    /\ ret.op = "set"
    /\ Len(cache) = maxsize
    /\ \E key \in ExpiringKeys :
         /\ cache[Len(cache) - 1].key = key
         /\ cache[Len(cache)].key = expiry_key(key)

\* min(2, n)
AtMostTwo(n) == IF n < 2 THEN n ELSE 2

\* C16: skip_quiz on an existing active lesson answers can_skip = true
\* exactly when quiz_attempts >= 3; with can_skip it returns min(2, number of
\* later active lessons of the path) different ids of such lessons, without
\* it an empty list.
C16_SkipAfterThreeAttempts ==
    [][\A lesson_id \in 1..Len(lessons), quiz_attempts \in Attempts :
         (lessons[lesson_id].is_active /\ skip_quiz(lesson_id, quiz_attempts))
         => /\ skip'.code = 200
            /\ skip'.can_skip = (quiz_attempts >= 3)
            /\ IF quiz_attempts >= 3
               THEN LET unlocked == skip'.unlocked_lessons
                    IN /\ Len(unlocked) =
                            AtMostTwo(Cardinality(NextLessons(lesson_id)))
                       /\ \A i \in 1..Len(unlocked) :
                            unlocked[i] \in NextLessons(lesson_id)
                       /\ \A i, j \in 1..Len(unlocked) :
                            unlocked[i] = unlocked[j] => i = j
               ELSE skip'.unlocked_lessons = <<>>]_vars

\* A skip was granted and unlocked one lesson, the only one that remained.
C16_Witness ==
    /\ skip.code = 200
    /\ skip.can_skip
    /\ Len(skip.unlocked_lessons) = 1
    /\ Len(lessons) = MaxLessons

\* C17: the lessons a granted skip unlocks are the later active lessons of
\* the path with the smallest sort_order: no later lesson left locked has a
\* smaller sort_order than an unlocked one.
C17_UnlocksNextInSortOrder ==
    [][\A lesson_id \in 1..Len(lessons), quiz_attempts \in Attempts :
         (/\ lessons[lesson_id].is_active
          /\ quiz_attempts >= 3
          /\ skip_quiz(lesson_id, quiz_attempts))
         => LET unlocked == skip'.unlocked_lessons
            IN \A m \in NextLessons(lesson_id), i \in 1..Len(unlocked) :
                 (\A j \in 1..Len(unlocked) : unlocked[j] # m)
                 => lessons[unlocked[i]].sort_order <= lessons[m].sort_order]_vars

\* C18: every admin endpoint called by a user who is not a superuser answers
\* 403 and leaves every user and character record unchanged.
C18_AdminNeedsSuperuser ==
    [][\A caller \in UserIds :
         (/\ ~is_admin_user(caller)
          /\ \/ \E endpoint \in ReadEndpoints : read_endpoint(caller, endpoint)
             \/ \E user_id \in UserIds \cup {3}, action \in Actions :
                  \E p \in UserParams(action) :
                     manage_user(caller, user_id, action, p[1], p[2], p[3])
             \/ \E character_id \in CharacterIds \cup {2}, action \in Actions :
                  \E p \in CharacterParams(action) :
                     manage_character(caller, character_id, action, p[1], p[2]))
         => /\ admin_resp' = 403
            /\ UNCHANGED <<users, characters>>]_vars

\* A caller is refused after a superuser had taken the superuser flag away
\* from user 1 and reset a password: nobody is a superuser any more.
C18_Witness ==
    /\ admin_resp = 403
    /\ \A u \in UserIds : ~users[u].is_superuser
    /\ \E u \in UserIds : users[u].hashed_password = "temp"

\* The actions manage_user and manage_character support.
UserActions == {"toggle", "reset_password", "update"}
CharacterActions == {"toggle", "update"}

\* C19: for a superuser caller, manage_user and manage_character answer 404
\* when the target id does not exist and 400 when the action is not a
\* supported one, and leave the records unchanged in both cases.
C19_AdminErrorTaxonomy ==
    [][\A caller \in UserIds :
         is_admin_user(caller)
         => /\ \A user_id \in UserIds \cup {3}, action \in Actions :
                 manage_user(caller, user_id, action, <<>>, <<>>, <<>>)
                 => /\ user_id \notin UserIds
                       => admin_resp' = 404 /\ UNCHANGED users
                    /\ (user_id \in UserIds /\ action \notin UserActions)
                       => admin_resp' = 400 /\ UNCHANGED users
            /\ \A character_id \in CharacterIds \cup {2}, action \in Actions :
                 manage_character(caller, character_id, action, <<>>, <<>>)
                 => /\ character_id \notin CharacterIds
                       => admin_resp' = 404 /\ UNCHANGED characters
                    /\ (character_id \in CharacterIds
                          /\ action \notin CharacterActions)
                       => admin_resp' = 400 /\ UNCHANGED characters]_vars

\* The ids of the levels one step above the level with this id: those whose
\* xp_required is the smallest one strictly greater than this level's.
OneStepAbove(held) ==
    { lv.id : lv \in
        { a \in levels :
            /\ \E h \in levels : h.id = held /\ a.xp_required > h.xp_required
            /\ \A b \in levels :
                 (\E h \in levels : h.id = held /\ b.xp_required > h.xp_required)
                 => a.xp_required <= b.xp_required } }

\* C21: one add_xp call advances the user by at most one level: it promotes
\* to the level with the smallest xp_required strictly above the held level's
\* exactly when the new current_xp reaches that threshold, leaves level_id
\* unchanged otherwise, and never moves the user to a lower xp_required.
C21_AtMostOneLevel ==
    [][\A u \in LearnUsers, xp_amount \in XpAmounts :
         add_xp(u, xp_amount)
         => LET held == level_id[u]
                step == OneStepAbove(held)
            IN /\ current_xp'[u] = current_xp[u] + xp_amount
               /\ IF \E id \in step : current_xp'[u] >= XpRequiredOf(id)
                  THEN level_id'[u] \in step
                  ELSE level_id'[u] = held
               /\ XpRequiredOf(level_id'[u]) >= XpRequiredOf(held)]_vars

\* A user whose total already pays for the third level holds the second: the
\* call that took them past both thresholds promoted them by one level only.
C21_Witness ==
    \E u \in LearnUsers :
       /\ level_id[u] = 2
       /\ XpRequiredOf(3) > XpRequiredOf(2)
       /\ current_xp[u] >= XpRequiredOf(3)
       /\ current_xp[u] \in XpAmounts

\* C29: can_level_up answers true exactly when a level with a greater
\* xp_required than the held level's exists and current_xp has reached the
\* smallest such xp_required, which is when add_xp of 0 would promote.
C29_CanLevelUpIffPromotable ==
    \A u \in LearnUsers :
       can_level_up(u)
       <=> \E id \in OneStepAbove(level_id[u]) :
              current_xp[u] >= XpRequiredOf(id)

\* A production as an approval leaves it: in the drawing stage, at 20 percent.
AsApproved(row) ==
    row.current_stage = "drawing" /\ row.completion_percentage = 20

WildcardPatterns ==
    { p \in Patterns : p[Len(p)] = "*" \/ p[1] = "*" }

\* Whether a key matches a wildcard pattern.
Matches(key, pattern) ==
    IF pattern[Len(pattern)] = "*"
    THEN StartsWith(key, SubSeq(pattern, 1, Len(pattern) - 1))
    ELSE EndsWith(key, SubSeq(pattern, 2, Len(pattern)))

\* C23: clear_pattern clears every cached key that matches the pattern, for
\* prefix and for suffix patterns and whether the keys were written with an
\* explicit expire or without: afterwards no matching key is cached, and the
\* count it returns is the number of matching keys it removed.
C23_ClearsEveryMatch ==
    [][\A pattern \in WildcardPatterns :
         clear_pattern(pattern)
         => LET after == [c |-> cache', l |-> lru']
                matching == { key \in CacheKeys :
                                /\ Contains(Store, now, key)
                                /\ Matches(key, pattern) }
            IN /\ \A key \in matching : ~Contains(after, now, key)
               /\ ret'.value = Cardinality(matching)]_vars

\* C24: set(key, value, expire = e) gives the entry an expiration of its own
\* that get checks: for e shorter than ttl, a get of a key that was written
\* together with its _expiry_ companion returns the value while less than e
\* seconds have passed since the write and absent once e seconds have passed.
C24_OwnExpiration ==
    \A key \in ExpiringKeys :
       (/\ ret.op = "get"
        /\ ret.key = key
        /\ Stored(Store, key)
        /\ Stored(Store, expiry_key(key))
        /\ WrittenAt(Store, expiry_key(key)) = WrittenAt(Store, key))
       => LET e == ItemOf(Store, expiry_key(key)).value - WrittenAt(Store, key)
          IN e < ttl
             => ret.value = IF now - WrittenAt(Store, key) < e
                            THEN ItemOf(Store, key).value
                            ELSE None

\* C25: cache_result is read-through: a call made less than expire seconds
\* after the previous run of the function (same arguments, key not
\* invalidated since) returns that run's result without running the function;
\* the first call after expire seconds, or after an invalidation, runs the
\* function again and stores the new result.
C25_ReadThrough ==
    [][\A key \in ExpiringKeys, result \in Values :
         decorated_call(key, result)
         => IF calls.at # <<>> /\ now - calls.at[1] < calls.expire
            THEN /\ ret'.value = calls.result
                 /\ calls' = calls
            ELSE /\ ret'.value = result
                 /\ calls'.at = <<now>>
                 /\ Contains([c |-> cache', l |-> lru'], now, key)
                 /\ ItemOf([c |-> cache', l |-> lru'], key).value = result]_vars

\* C27: the exit code of health_check.py is 1 when the overall status is
\* critical, unhealthy or down, 2 when it is warning and 0 otherwise, and it
\* is 0 only if every probed service reported healthy, in a run of all
\* services and in a run of a single --service.
C27_ExitCode ==
    health.exit_code # <<>>
    => /\ health.exit_code[1] =
            IF health.overall_status \in {"critical", "unhealthy", "down"}
            THEN 1
            ELSE IF health.overall_status = "warning" THEN 2
            ELSE 0
       /\ health.exit_code[1] = 0
          => \A s \in DOMAIN health.checks : health.checks[s] = "healthy"

\* C26: after invalidate_character_cache, with or without a character_id, no
\* entry is cached under a CharacterCache key (list, detail, search, stats).
C26_NoCharacterEntryLeft ==
    ret.op = "invalidate_character_cache"
    => \A key \in CharacterCacheKeys : ~Contains(Store, now, key)

\* C30: invalidate_progress_cache(user_id = u) is scoped to user u: afterwards
\* the entry under get_user_progress_key(u) is absent, and the entries of
\* every other user v (get_user_progress_key(v) and
\* get_character_progress_key(c, v)) that were cached are still cached,
\* unchanged.
C30_ScopedToUser ==
    [][\A u \in CachedUsers :
         invalidate_progress_cache(u, None)
         => LET after == [c |-> cache', l |-> lru']
            IN /\ ~Contains(after, now, get_user_progress_key(u))
               /\ \A v \in CachedUsers \ {u} :
                    \A key \in {get_user_progress_key(v)}
                               \cup { get_character_progress_key(c, v) :
                                        c \in CachedCharacters } :
                       Contains(Store, now, key)
                       => /\ Contains(after, now, key)
                          /\ ItemOf(after, key) = ItemOf(Store, key)]_vars

\* A request in flight whose submission qualifies for an award.
Qualifying(r) ==
    /\ req[r].pc = "loaded"
    /\ req[r].score >= 70
    /\ ActiveLesson(req[r].lesson)

\* C28: when two qualifying update_lesson_progress requests of one user, for
\* different lessons, interleave, no award is lost: the request that is
\* answered while the other is still in flight leaves the committed
\* current_xp greater by its own award, so that after both the user has the
\* initial current_xp plus the sum of the two awards.
C28_NoLostAward ==
    [][\A r \in Slots, o \in Slots :
         (/\ o # r
          /\ Answered(r)
          /\ Qualifying(r)
          /\ Qualifying(o)
          /\ req[o].user = req[r].user
          /\ req[o].lesson # req[r].lesson)
         => current_xp'[req[r].user]
              = current_xp[req[r].user]
                + (IF req[r].score >= 90 THEN 15 ELSE 10)]_vars

====
